---- MODULE Spec2Model ----
(***************************************************************************)
(* check-apphash: a log relayer that tails the CometBFT commit logs of a   *)
(* validator fleet and checks that every node reports the same app hash    *)
(* (root) at every height.                                                 *)
(*                                                                         *)
(* The repository holds several revisions of the same program.  The model  *)
(* carries the revision in the variable `variant`:                         *)
(*   "part_002"  src/unnamed/part_002  (consistentRecords, health probe)  *)
(*   "main"      src/main.go           (confirmedHeight, chain restart)    *)
(*   "part_000"  src/unnamed/part_000  (synchronous streamLogsWithFilter)  *)
(***************************************************************************)
EXTENDS Integers, Sequences, FiniteSets, TLC

VARIABLES
    variant,          \* which revision of main() runs
    proc,             \* process status: "running" or the way it ended
    health,           \* health endpoint goroutine (part_002 only)
    adapter,          \* [pipeline -> position of streamLogsWithFilter]
    batch,            \* [pipeline -> number of resp.Entries still to be sent on `out`]
    chClosed,         \* [pipeline -> close(out) has run]
    consumer,         \* [pipeline -> position of the worker goroutine]
    recvd,            \* [pipeline -> records the worker loop has received] (history)
    rootCache,        \* map[int][]RootHashRecord of the tm worker
    confirmedHeight,  \* main.go only
    notified,         \* calls of postToDiscord, in order
    lastPost,         \* what became of the latest http.Post: "none", "ok", "err"
    stdlog,           \* lines written with log.Print / log.Fatal by the workers
    streamLeft,       \* records the log streams still hold for this run
    parse             \* a call of parseCommitLog on its own: arguments and result

vars == << variant, proc, health, adapter, batch, chClosed, consumer, recvd,
           rootCache, confirmedHeight, notified, lastPost, stdlog, streamLeft,
           parse >>

------------------------------------------------------------------------------
(* Bounds of the model *)

\* records one run draws from the two log streams together
MaxRecords == 3
\* the same, for a run of the tm pipeline alone
MaxTmRecords == 5
\* entries in one TailLogEntriesResponse
MaxBatch == 2

(* Program constants *)

\* commitLog.Height%1000 == 0
RelayModulus == 1000
\* commitLog.Height%4320 == 0
MainModulus == 4320

Variants == {"part_002", "main", "part_000"}
Pipelines == {"tm", "pd"}

Pods == {"nodeA", "nodeB"}
Roots == {"aa", "bb"}
Heights == {1000, 4320}

\* a \d+ field that is absent from the line
Missing == -1
\* a \d+ field whose digits exceed the range of int: strconv.Atoi fails
TooBig == -2

------------------------------------------------------------------------------
(* Raw records: LogEntry{metadata, payload} *)

\* The text payload, by the parts the commit regexp looks at.
Line(marker, height, hash, root, numTxs, text) ==
    [marker |-> marker, height |-> height, hash |-> hash, root |-> root,
     num_txs |-> numTxs, text |-> text]

CommitLine(h, r) == Line(TRUE, h, "deadbeef", r, 3, "")
\* "height=42 root=cafebabe": no marker, no hash, no num_txs
NoMatchLine == Line(FALSE, 42, "", "cafebabe", Missing, "")
ErrorLine == Line(FALSE, Missing, "", "", Missing, "ERROR panicked")

\* metadata is a map of labels; only the pod_name label is read
LogEntry(hasPod, pod, line) ==
    [metadata |-> [exists |-> hasPod, pod_name |-> pod], payload |-> line]

TmEntries ==
    {LogEntry(TRUE, p, CommitLine(h, r)) : p \in Pods, h \in Heights, r \in Roots}
    \cup {LogEntry(FALSE, "", CommitLine(1000, "aa")),
          LogEntry(TRUE, "nodeA", NoMatchLine)}

PdEntries ==
    {LogEntry(TRUE, "nodeA", ErrorLine), LogEntry(FALSE, "", ErrorLine)}

StreamEntries(p) == IF p = "tm" THEN TmEntries ELSE PdEntries

------------------------------------------------------------------------------
(* Messages: what the fmt.Sprintf formats put into the text *)

Msg(kind, mention, pod, height, tip, root, known, payload) ==
    [kind |-> kind, mention |-> mention, pod |-> pod, height |-> height,
     tip |-> tip, root |-> root, known |-> known, payload |-> payload]

RootHashRecord(pod, root) == [PodName |-> pod, Root |-> root]

\* a bug that leaves the root out of the status line
StatusLine_NoRoot(c) ==
    Msg("status", FALSE, c.PodName, c.Height, 0, "", << >>, "")

\* "%s, at height %d, has apphash %s"
StatusLine(c) ==
    Msg("status", FALSE, c.PodName, c.Height, 0, c.Root, << >>, "")

\* "**%s**, at height **%d**, has apphash _%s_"
ProgressNotice(c) ==
    Msg("progress", FALSE, c.PodName, c.Height, 0, c.Root, << >>, "")

\* "%s: %s", podName, logEntry.payload
ErrorNotice(pod, line) ==
    Msg("error", FALSE, pod, 0, 0, "", << >>, line.text)

\* one "%s: %s\n" line of a mismatch notice
KnownLine(record) == [pod |-> record.PodName, root |-> record.Root]

\* for record := range records { s += "%s: %s\n" }
knownRootHashesString(records) == [i \in 1..Len(records) |-> KnownLine(records[i])]

\* "ROOT MISMATCH DETECTED AT BLOCK %d" "\n" record_str, with or without
\* the "@erwanor : " prefix
RootMismatch(mention, height, prev) ==
    Msg("mismatch", mention, "", height, 0, "", knownRootHashesString(prev), "")

\* "root mismatch detected at height %d, between:\n%s: %s\n%s: %s\n"
RootMismatchPair(mention, height, first, record) ==
    Msg("mismatch", mention, "", height, 0, "", << KnownLine(first), KnownLine(record) >>, "")

\* "detected chain restart, current height=%d, previous tip: height=%d,
\*  %s:%s and %s:%s"
ChainRestart(height, tip, first, second) ==
    Msg("restart", FALSE, "", height, tip, "", << KnownLine(first), KnownLine(second) >>, "")

------------------------------------------------------------------------------
(* parseCommitLog *)

\* a bug that drops the range error of strconv.Atoi
Atoi_Unchecked(n) == [err |-> FALSE, val |-> IF n = TooBig THEN 0 ELSE n]

\* strconv.Atoi on the digits the regexp captured
Atoi(n) == IF n = TooBig THEN [err |-> TRUE, val |-> 0]
                          ELSE [err |-> FALSE, val |-> n]

\* the regexp matches when the marker and the four fields are all there
ReMatches(line) ==
    /\ line.marker
    /\ line.height # Missing
    /\ line.hash # ""
    /\ line.root # ""
    /\ line.num_txs # Missing

NoLogData == [Height |-> 0, Hash |-> "", Root |-> "", NumTxs |-> 0, PodName |-> ""]

\* part_000 leaves LogData.PodName unset
parseCommitLog(v, podName, line) ==
    IF ~ReMatches(line) THEN [err |-> "no match", data |-> NoLogData]
    ELSE IF Atoi(line.height).err THEN [err |-> "parsing height", data |-> NoLogData]
    ELSE IF Atoi(line.num_txs).err THEN [err |-> "parsing num_txs", data |-> NoLogData]
    ELSE [err |-> "",
          data |-> [Height |-> Atoi(line.height).val, Hash |-> line.hash,
                    Root |-> line.root, NumTxs |-> Atoi(line.num_txs).val,
                    PodName |-> IF v = "part_000" THEN "" ELSE podName]]

\* the lines parseCommitLog is called on when it is checked on its own: the
\* marker and each field present or not, the numbers in or out of int's range
ParseLines ==
    {Line(m, h, x, r, n, "") :
        m \in BOOLEAN, h \in {Missing, TooBig, 0, 1000}, x \in {"", "deadbeef"},
        r \in {"", "aa"}, n \in {Missing, TooBig, 0, 3}}

\* parseCommitLog has not been called
NotCalled == [called |-> FALSE]

------------------------------------------------------------------------------
(* The tm worker: one iteration of `for logEntry := range commitLogs` *)

EmptyCache == [h \in {} |-> << >>]

CachePut(cache, h, records) ==
    [k \in DOMAIN cache \cup {h} |-> IF k = h THEN records ELSE cache[k]]

\* a bug that drops the comparison
consistentRecords_Unchecked(current, records) == TRUE

\* a bug that compares the pod names instead of the roots
consistentRecords_ByPod(current, records) ==
    IF Len(records) = 0 THEN TRUE
    ELSE \A i \in 1..Len(records) : current.PodName = records[i].PodName

consistentRecords(current, records) ==
    IF Len(records) = 0 THEN TRUE
    ELSE \A i \in 1..Len(records) : current.Root = records[i].Root

\* what one iteration leaves behind: the map, confirmedHeight, the messages
\* handed to postToDiscord, the log lines, and how the process ended if it did
Outcome(cache, conf, posts, logs, exit) ==
    [cache |-> cache, conf |-> conf, posts |-> posts, logs |-> logs, exit |-> exit]

\* a bug that keys the map by another field of the commit log
CacheKey_NumTxs(c) == c.NumTxs

\* rootCache[commitLog.Height]
CacheKey(c) == c.Height

\* a bug that posts the alert and then stores the record and goes on
RelayMismatch_Continue(c, prev, cache, conf, posts, logs) ==
    Outcome(CachePut(cache, CacheKey(c), Append(prev, RootHashRecord(c.PodName, c.Root))),
            conf, Append(posts, RootMismatch(TRUE, c.Height, prev)), logs, "")

\* a bug that calls log.Fatal before the alert is posted
RelayMismatch_FatalFirst(c, prev, cache, conf, posts, logs) ==
    Outcome(cache, conf, posts,
            Append(logs, RootMismatch(FALSE, c.Height, prev)), "mismatch")

\* part_002, the divergence branch: the alert is posted, then log.Fatal
RelayMismatch(c, prev, cache, conf, posts, logs) ==
    Outcome(cache, conf,
            Append(posts, RootMismatch(TRUE, c.Height, prev)),
            Append(logs, RootMismatch(FALSE, c.Height, prev)),
            "mismatch")

\* a bug that keeps one report per pod
RelayAppend_Dedup(c, record, prev, cache, conf, posts, logs) ==
    IF \E i \in 1..Len(prev) : prev[i].PodName = record.PodName
    THEN Outcome(cache, conf, posts, logs, "")
    ELSE Outcome(CachePut(cache, CacheKey(c), Append(prev, record)), conf, posts, logs, "")

\* part_002, the consistent branch: append(rootCache[commitLog.Height], record)
RelayAppend(c, record, prev, cache, conf, posts, logs) ==
    Outcome(CachePut(cache, CacheKey(c), Append(prev, record)), conf, posts, logs, "")

\* src/unnamed/part_002, lines 190-231
RelayLoopBody(c, cache, conf) ==
    LET record == RootHashRecord(c.PodName, c.Root)
        logs == << StatusLine(c) >>
        posts == IF c.Height % RelayModulus = 0 THEN << ProgressNotice(c) >> ELSE << >>
    IN  IF CacheKey(c) \in DOMAIN cache
        THEN LET prev == cache[CacheKey(c)] IN
             IF ~consistentRecords(record, prev)
             THEN RelayMismatch(c, prev, cache, conf, posts, logs)
             ELSE RelayAppend(c, record, prev, cache, conf, posts, logs)
        ELSE Outcome(CachePut(cache, CacheKey(c), << record >>), conf, posts, logs, "")

\* a bug that keeps the map on a chain restart and appends to it
MainRestart_Keep(c, record, prev, cache, conf, posts, logs) ==
    Outcome(CachePut(cache, c.Height, Append(prev, record)), conf,
            Append(posts, ChainRestart(c.Height, conf, prev[1], prev[2])), logs, "")

\* main.go, the chain-restart branch once prev[0] and prev[1] are read
MainRestart(c, record, prev, cache, conf, posts, logs) ==
    Outcome([k \in {c.Height} |-> << record >>], conf,
            Append(posts, ChainRestart(c.Height, conf, prev[1], prev[2])), logs, "")

\* src/main.go, lines 185-218
MainLoopBody(c, cache, conf) ==
    LET record == RootHashRecord(c.PodName, c.Root)
        logs == << StatusLine(c) >>
        posts == IF c.Height % MainModulus = 0 THEN << ProgressNotice(c) >> ELSE << >>
    IN  IF c.Height \in DOMAIN cache
        THEN LET prev == cache[c.Height] IN
             IF c.Height < conf
             THEN IF Len(prev) < 2
                  THEN \* prev[1]: index out of range
                       Outcome(cache, conf, posts, logs, "panic")
                  ELSE MainRestart(c, record, prev, cache, conf, posts, logs)
             ELSE IF prev[1].Root # record.Root
             THEN Outcome(cache, conf,
                          Append(posts, RootMismatchPair(TRUE, c.Height, prev[1], record)),
                          Append(logs, RootMismatchPair(FALSE, c.Height, prev[1], record)),
                          "mismatch")
             ELSE Outcome(CachePut(cache, c.Height, Append(prev, record)),
                          c.Height, posts, logs, "")
        ELSE Outcome(CachePut(cache, c.Height, << record >>), conf, posts, logs, "")

\* src/unnamed/part_000, lines 166-189
Part000LoopBody(c, cache, conf) ==
    LET record == RootHashRecord(c.PodName, c.Root)
        logs == << StatusLine(c) >>
        posts == IF c.Height % MainModulus = 0 THEN << StatusLine(c) >> ELSE << >>
    IN  IF c.Height \in DOMAIN cache
        THEN LET prev == cache[c.Height] IN
             IF prev[1].Root # record.Root
             THEN Outcome(cache, conf,
                          Append(posts, RootMismatchPair(TRUE, c.Height, prev[1], record)),
                          Append(logs, RootMismatchPair(FALSE, c.Height, prev[1], record)),
                          "mismatch")
             ELSE Outcome(CachePut(cache, c.Height, Append(prev, record)),
                          conf, posts, logs, "")
        ELSE Outcome(CachePut(cache, c.Height, << record >>), conf, posts, logs, "")

\* a bug that reports a record it cannot use to the notifier
SkipRecord_Reported(logEntry, cache, conf) ==
    Outcome(cache, conf, << ErrorNotice(logEntry.metadata.pod_name, logEntry.payload) >>,
            << >>, "")

\* `continue` in the tm loop: nothing is logged, posted or stored
SkipRecord(logEntry, cache, conf) == Outcome(cache, conf, << >>, << >>, "")

\* the whole iteration: the pod_name lookup, parseCommitLog, then the body
TmLoopBody(v, logEntry, cache, conf) ==
    IF ~logEntry.metadata.exists
    THEN SkipRecord(logEntry, cache, conf)
    ELSE LET parsed == parseCommitLog(v, logEntry.metadata.pod_name, logEntry.payload) IN
         IF parsed.err # ""
         THEN SkipRecord(logEntry, cache, conf)
         ELSE CASE v = "part_002" -> RelayLoopBody(parsed.data, cache, conf)
                [] v = "main" -> MainLoopBody(parsed.data, cache, conf)
                [] OTHER -> Part000LoopBody(parsed.data, cache, conf)

\* a bug that forwards a record whether it has the label or not
PdLoopBody_ForwardAll(v, logEntry) ==
    [posts |-> << ErrorNotice(logEntry.metadata.pod_name, logEntry.payload) >>,
     logs |-> << >>]

\* the pd worker: one iteration of `for logEntry := range errorLogs`
PdLoopBody(v, logEntry) ==
    IF ~logEntry.metadata.exists
    THEN [posts |-> << >>,
          logs |-> IF v = "part_000" THEN << >>
                   ELSE << Msg("nopod", FALSE, "", 0, 0, "", << >>, "pod name not found!") >>]
    ELSE [posts |-> << ErrorNotice(logEntry.metadata.pod_name, logEntry.payload) >>,
          logs |-> << >>]

\* postToDiscord: the message goes out with http.Post, whose response and
\* error are dropped
postToDiscord(from, msg) == [from |-> from, msg |-> msg]

PostAll(from, posts) == [i \in 1..Len(posts) |-> postToDiscord(from, posts[i])]

\* the results http.Post can have had after `posts` were sent
PostResults(posts, last) == IF Len(posts) = 0 THEN {last} ELSE {"ok", "err"}

\* a bug that does not halt when the alert could not be sent
AfterPost_Silenced(exit, result, posts) ==
    IF exit = "mismatch" /\ result = "err" THEN "" ELSE exit

\* a bug that makes a failed send fatal
AfterPost_Fatal(exit, result, posts) ==
    IF Len(posts) > 0 /\ result = "err" THEN "postfatal" ELSE exit

\* postToDiscord returns nothing: the iteration goes on as it would have
AfterPost(exit, result, posts) == exit

------------------------------------------------------------------------------
(* State machine *)

Start ==
    /\ proc = "running"
    /\ health = IF variant = "part_002" THEN "start" ELSE "none"
    /\ adapter = [p \in Pipelines |-> "connect"]
    /\ batch = [p \in Pipelines |-> 0]
    /\ chClosed = [p \in Pipelines |-> FALSE]
    /\ consumer = [p \in Pipelines |-> IF variant = "part_000" THEN "stream" ELSE "range"]
    /\ recvd = [p \in Pipelines |-> << >>]
    /\ rootCache = EmptyCache
    /\ confirmedHeight = 0
    /\ notified = << >>
    /\ lastPost = "none"
    /\ stdlog = << >>
    /\ parse = NotCalled

Init ==
    /\ variant \in Variants
    /\ streamLeft = MaxRecords
    /\ Start

\* part_000 calls streamLogsWithFilter in the worker itself: the range loop
\* starts when the call returns
AfterReturn(p) ==
    IF variant = "part_000" THEN [consumer EXCEPT ![p] = "range"] ELSE consumer

\* streamLogsWithFilter up to the receive loop: NewClient, TailLogEntries, Send
Connect(p) ==
    /\ proc = "running"
    /\ adapter[p] = "connect"
    /\ \E res \in {"ok", "NewClient error", "TailLogEntries error", "stream.Send error"} :
        IF res = "ok"
        THEN /\ adapter' = [adapter EXCEPT ![p] = "recv"]
             /\ UNCHANGED << proc, consumer >>
        ELSE IF res = "stream.Send error" /\ variant # "part_000"
        THEN \* log.Fatal
             /\ proc' = "sendfatal"
             /\ UNCHANGED << adapter, consumer >>
        ELSE \* return fmt.Errorf(...): `out` is not closed
             /\ adapter' = [adapter EXCEPT ![p] = "failed"]
             /\ consumer' = AfterReturn(p)
             /\ UNCHANGED proc
    /\ UNCHANGED << parse, variant, health, batch, chClosed, recvd, rootCache,
                    confirmedHeight, notified, lastPost, stdlog, streamLeft >>

\* stream.Recv returns a response with entries
Recv(p) ==
    /\ proc = "running"
    /\ adapter[p] = "recv"
    /\ \E n \in 1..MaxBatch :
        /\ n <= streamLeft
        /\ streamLeft' = streamLeft - n
        /\ batch' = [batch EXCEPT ![p] = n]
        /\ adapter' = [adapter EXCEPT ![p] = "send"]
    /\ UNCHANGED << parse, variant, proc, health, chClosed, consumer, recvd, rootCache,
                    confirmedHeight, notified, lastPost, stdlog >>

\* stream.Recv returns io.EOF or an error: break, close(out), return nil
StreamEnd(p) ==
    /\ proc = "running"
    /\ adapter[p] = "recv"
    /\ chClosed' = [chClosed EXCEPT ![p] = TRUE]
    /\ adapter' = [adapter EXCEPT ![p] = "returned"]
    /\ consumer' = AfterReturn(p)
    /\ UNCHANGED << parse, variant, proc, health, batch, recvd, rootCache,
                    confirmedHeight, notified, lastPost, stdlog, streamLeft >>

\* a bug that delivers a record twice
Handoff_Twice(p, logEntry) ==
    /\ adapter[p] = "send"
    /\ consumer[p] = "range"
    /\ batch' = [batch EXCEPT ![p] = batch[p] - 1]
    /\ adapter' = [adapter EXCEPT ![p] = IF batch[p] = 1 THEN "recv" ELSE "send"]
    /\ recvd' = [recvd EXCEPT ![p] = recvd[p] \o << logEntry, logEntry >>]

\* `out <- LogEntry{...}` meets the range loop's receive; the entry's labels
\* and payload are read off the response as it is sent
Handoff(p, logEntry) ==
    /\ adapter[p] = "send"
    /\ consumer[p] = "range"
    /\ batch' = [batch EXCEPT ![p] = batch[p] - 1]
    /\ adapter' = [adapter EXCEPT ![p] = IF batch[p] = 1 THEN "recv" ELSE "send"]
    /\ recvd' = [recvd EXCEPT ![p] = Append(recvd[p], logEntry)]

\* the tm worker receives a record and runs one iteration of its loop
TmWorker ==
    /\ proc = "running"
    /\ \E logEntry \in StreamEntries("tm") :
        /\ Handoff("tm", logEntry)
        /\ \E r \in {TmLoopBody(variant, logEntry, rootCache, confirmedHeight)} :
            /\ rootCache' = r.cache
            /\ confirmedHeight' = r.conf
            /\ stdlog' = stdlog \o r.logs
            /\ notified' = notified \o PostAll("tm", r.posts)
            /\ \E result \in PostResults(r.posts, lastPost) :
                /\ lastPost' = result
                /\ proc' = IF AfterPost(r.exit, result, r.posts) = "" THEN "running"
                           ELSE AfterPost(r.exit, result, r.posts)
    /\ UNCHANGED << parse, variant, health, chClosed, consumer, streamLeft >>

\* the pd worker's range loop receives a record from errorLogs
PdWorker ==
    /\ proc = "running"
    /\ \E logEntry \in StreamEntries("pd") : Handoff("pd", logEntry)
    /\ consumer' = [consumer EXCEPT !["pd"] = "body"]
    /\ UNCHANGED << parse, variant, proc, health, chClosed, rootCache, confirmedHeight,
                    notified, lastPost, stdlog, streamLeft >>

\* the pd worker runs the loop body on the record it received: the pod_name
\* lookup, then postToDiscord; the tm worker may have run in between
PdForward ==
    /\ proc = "running"
    /\ consumer["pd"] = "body"
    /\ LET r == PdLoopBody(variant, recvd["pd"][Len(recvd["pd"])]) IN
        /\ stdlog' = stdlog \o r.logs
        /\ notified' = notified \o PostAll("pd", r.posts)
        /\ \E result \in PostResults(r.posts, lastPost) :
            /\ lastPost' = result
            /\ proc' = IF AfterPost("", result, r.posts) = "" THEN "running"
                       ELSE AfterPost("", result, r.posts)
    /\ consumer' = [consumer EXCEPT !["pd"] = "range"]
    /\ UNCHANGED << parse, variant, health, adapter, batch, chClosed, recvd, rootCache,
                    confirmedHeight, streamLeft >>

\* the range loop ends on the closed channel; defer wg.Done()
WorkerExit(p) ==
    /\ proc = "running"
    /\ consumer[p] = "range"
    /\ chClosed[p]
    /\ consumer' = [consumer EXCEPT ![p] = "done"]
    /\ UNCHANGED << parse, variant, proc, health, adapter, batch, chClosed, recvd,
                    rootCache, confirmedHeight, notified, lastPost, stdlog, streamLeft >>

\* wg.Wait() returns and main returns
MainReturn ==
    /\ proc = "running"
    /\ \A p \in Pipelines : consumer[p] = "done"
    /\ proc' = "exited"
    /\ UNCHANGED << parse, variant, health, adapter, batch, chClosed, consumer, recvd,
                    rootCache, confirmedHeight, notified, lastPost, stdlog, streamLeft >>

\* http.ListenAndServe(":8080", nil) starts serving /health
HealthServe ==
    /\ proc = "running"
    /\ health = "start"
    /\ health' = "serving"
    /\ UNCHANGED << parse, variant, proc, adapter, batch, chClosed, consumer, recvd,
                    rootCache, confirmedHeight, notified, lastPost, stdlog, streamLeft >>

\* http.ListenAndServe returns an error: log.Fatal
HealthFail ==
    /\ proc = "running"
    /\ health = "start"
    /\ proc' = "healthfatal"
    /\ UNCHANGED << parse, variant, health, adapter, batch, chClosed, consumer, recvd,
                    rootCache, confirmedHeight, notified, lastPost, stdlog, streamLeft >>

Next ==
    \/ \E p \in Pipelines : Connect(p)
    \/ \E p \in Pipelines : Recv(p)
    \/ \E p \in Pipelines : StreamEnd(p)
    \/ TmWorker
    \/ PdWorker
    \/ PdForward
    \/ \E p \in Pipelines : WorkerExit(p)
    \/ MainReturn
    \/ HealthServe
    \/ HealthFail

Spec == Init /\ [][Next]_vars

\* parseCommitLog(podName, logEntry.payload) called on any line, as the tm loop
\* calls it
ParseCall ==
    /\ \E podName \in Pods, line \in ParseLines :
          parse' = [called |-> TRUE, podName |-> podName, line |-> line,
                    result |-> parseCommitLog(variant, podName, line)]
    /\ UNCHANGED << variant, proc, health, adapter, batch, chClosed, consumer, recvd,
                    rootCache, confirmedHeight, notified, lastPost, stdlog, streamLeft >>

NextParse == ParseCall

\* Runs of the parser alone
SpecParse == Init /\ [][NextParse]_vars

\* Runs in which only the tm pipeline is scheduled (the pd worker, the health
\* goroutine and the other pipeline's adapter take no step), on a longer stream.
InitTm ==
    /\ variant \in {"part_002", "main"}
    /\ streamLeft = MaxTmRecords
    /\ Start

NextTm ==
    \/ Connect("tm")
    \/ Recv("tm")
    \/ StreamEnd("tm")
    \/ TmWorker
    \/ WorkerExit("tm")

SpecTm == InitTm /\ [][NextTm]_vars

------------------------------------------------------------------------------
(* What the claims speak of *)

Range(f) == {f[i] : i \in DOMAIN f}

IsPrefix(a, b) == Len(a) <= Len(b) /\ \A i \in 1..Len(a) : a[i] = b[i]

\* a record of the commit stream that yields a commit event
IsCommitEvent(logEntry) ==
    /\ logEntry.metadata.exists
    /\ parseCommitLog(variant, logEntry.metadata.pod_name, logEntry.payload).err = ""

CommitEvent(logEntry) ==
    LET d == parseCommitLog(variant, logEntry.metadata.pod_name, logEntry.payload).data
    IN  [height |-> d.Height, root |-> d.Root, sourceId |-> d.PodName]

\* the commit events the engine has processed, in arrival order
Events ==
    LET matched == SelectSeq(recvd["tm"], IsCommitEvent)
    IN  [i \in 1..Len(matched) |-> CommitEvent(matched[i])]

AtHeight(evs, h) == SelectSeq(evs, LAMBDA e : e.height = h)

EventsAt(h) == AtHeight(Events, h)

\* the (sourceId, root) pairs of a sequence of events
Reports(evs) == [i \in 1..Len(evs) |-> RootHashRecord(evs[i].sourceId, evs[i].root)]

\* the reports a map holds for a height, none if the height is not in it
ReportsIn(cache, h) == IF h \in DOMAIN cache THEN cache[h] ELSE << >>

CacheAt(h) == ReportsIn(rootCache, h)

\* event i differs in root from an earlier event of its height
Differs(evs, i) ==
    \E j \in 1..(i - 1) : evs[j].height = evs[i].height /\ evs[j].root # evs[i].root

\* index of the first such event, 0 if there is none
FirstDiffering(evs) ==
    IF \E i \in 1..Len(evs) : Differs(evs, i)
    THEN CHOOSE i \in 1..Len(evs) : Differs(evs, i) /\ \A k \in 1..(i - 1) : ~Differs(evs, k)
    ELSE 0

\* the divergence alerts handed to postToDiscord
Alerts == SelectSeq(notified, LAMBDA n : n.from = "tm" /\ n.msg.kind = "mismatch")

\* number of reports in the map, over all heights
CachedCount ==
    LET RECURSIVE Sum(_)
        Sum(S) == IF S = {} THEN 0
                  ELSE LET h == CHOOSE x \in S : TRUE
                       IN  Len(rootCache[h]) + Sum(S \ {h})
    IN  Sum(DOMAIN rootCache)

------------------------------------------------------------------------------
(* C1: in part_002, a sequence of commit events with two events at one     *)
(* height and differing roots raises exactly one divergence alert, at the  *)
(* first event whose root differs from a report cached at its height, and  *)
(* no event is cached from then on; a sequence without such a pair raises  *)
(* none.                                                                   *)
C1_OneAlertAtFirstDiffering ==
    variant = "part_002" =>
        LET evs == Events
            k == FirstDiffering(evs)
        IN  IF k = 0
            THEN /\ Len(Alerts) = 0
                 /\ proc # "mismatch"
                 /\ CachedCount = Len(evs)
            ELSE /\ Len(Alerts) = 1
                 /\ Alerts[1].msg.height = evs[k].height
                 /\ Alerts[1].msg.mention
                 /\ proc = "mismatch"
                 /\ k = Len(evs)
                 /\ IsCommitEvent(recvd["tm"][Len(recvd["tm"])])
                 /\ CachedCount = k - 1

C1_Witness ==
    /\ variant = "part_002"
    /\ proc = "mismatch"
    /\ Len(Events) = 3
    /\ Cardinality(DOMAIN rootCache) = 2

------------------------------------------------------------------------------
(* C2: while the engine runs, every height in the map has a non-empty      *)
(* sequence of reports, all with the same root (part_002 and main.go).     *)
C2_ReportsAgree ==
    proc = "running" =>
        \A h \in DOMAIN rootCache :
            /\ Len(rootCache[h]) >= 1
            /\ \A i, j \in 1..Len(rootCache[h]) : rootCache[h][i].Root = rootCache[h][j].Root

C2_Witness ==
    /\ proc = "running"
    /\ variant = "main"
    /\ \E n \in Range(notified) : n.msg.kind = "restart"
    /\ \E h \in DOMAIN rootCache : Len(rootCache[h]) = 1

------------------------------------------------------------------------------
(* C3: events that all carry one height and one root, in any order and     *)
(* with any repeats, are all cached; no divergence alert is raised and     *)
(* the engine does not halt (part_002 and main.go).                        *)
C3_SameRootAllAccepted ==
    LET evs == Events IN
    (/\ variant \in {"part_002", "main"}
     /\ Len(evs) >= 1
     /\ \A i \in 1..Len(evs) : /\ evs[i].height = evs[1].height
                               /\ evs[i].root = evs[1].root)
    => /\ rootCache = [h \in {evs[1].height} |-> Reports(evs)]
       /\ Len(Alerts) = 0
       /\ proc \notin {"mismatch", "panic"}

C3_Witness ==
    /\ variant \in {"part_002", "main"}
    /\ Len(Events) = 3
    /\ \A i \in 1..3 : Events[i].height = Events[1].height /\ Events[i].root = Events[1].root
    /\ Events[1].sourceId = Events[2].sourceId
    /\ Events[3].sourceId # Events[1].sourceId

------------------------------------------------------------------------------
(* C4: in part_002 the divergence alert names the height and every         *)
(* (sourceId, root) pair known at that height, the pair of the incoming    *)
(* event included.                                                         *)
C4_AlertNamesEveryPair ==
    (variant = "part_002" /\ proc = "mismatch") =>
        LET e == Events[Len(Events)]
            alert == Alerts[Len(Alerts)].msg
        IN  /\ alert.height = e.height
            /\ \A r \in Range(Reports(EventsAt(e.height))) :
                   KnownLine(r) \in Range(alert.known)

------------------------------------------------------------------------------
\* a divergence alert among the messages posted after the first `from`
C5_AlertIn(posted, from) ==
    \E i \in (from + 1)..Len(posted) :
        posted[i].from = "tm" /\ posted[i].msg.kind = "mismatch"

(* C5: in part_002 the engine goes from Running to Halted on divergence    *)
(* and nowhere else: a step hands the alert to postToDiscord exactly when  *)
(* it halts the process, the alert is for the height of the event that     *)
(* was being processed, the map is left as it was, and a halted process    *)
(* takes no further step.                                                  *)
C5_FailStop ==
    [][variant = "part_002" =>
          /\ (proc' = "mismatch" /\ proc # "mismatch") <=> C5_AlertIn(notified', Len(notified))
          /\ (proc' = "mismatch" /\ proc # "mismatch") =>
                 /\ proc = "running"
                 /\ \E i \in (Len(notified) + 1)..Len(notified') :
                        /\ notified'[i].from = "tm"
                        /\ notified'[i].msg.kind = "mismatch"
                        /\ notified'[i].msg.height =
                               CommitEvent(recvd'["tm"][Len(recvd'["tm"])]).height
                 /\ Len(recvd'["tm"]) = Len(recvd["tm"]) + 1
                 /\ rootCache' = rootCache
          /\ proc = "mismatch" => UNCHANGED vars
          /\ proc' # "panic"
      ]_vars

C5_Witness ==
    /\ variant = "part_002"
    /\ proc = "mismatch"
    /\ Len(notified) >= 3
    /\ \E i \in 1..Len(notified) : notified[i].from = "pd"

------------------------------------------------------------------------------
\* what one received record may do to the map, told from the events before it
C6_StepAt(logEntry, cacheAfter, procAfter) ==
    IF ~IsCommitEvent(logEntry)
    THEN cacheAfter = rootCache
    ELSE LET e == CommitEvent(logEntry)
             earlier == EventsAt(e.height)
         IN  /\ \A h \in Heights \ {e.height} :
                    ReportsIn(cacheAfter, h) = ReportsIn(rootCache, h)
             /\ IF \E i \in 1..Len(earlier) : earlier[i].root # e.root
                THEN /\ procAfter = "mismatch"
                     /\ ReportsIn(cacheAfter, e.height) = Reports(earlier)
                ELSE /\ procAfter = "running"
                     /\ ReportsIn(cacheAfter, e.height) =
                            Append(Reports(earlier), RootHashRecord(e.sourceId, e.root))

(* C6: in part_002 events at distinct heights do not interact: a step      *)
(* leaves the reports of every height it brings no event for unchanged,    *)
(* and for the height of the event it processes the decision and the new   *)
(* reports are fixed by the earlier events of that height alone.           *)
C6_HeightsIndependent ==
    [][variant = "part_002" =>
          IF Len(recvd'["tm"]) > Len(recvd["tm"])
          THEN C6_StepAt(recvd'["tm"][Len(recvd'["tm"])], rootCache', proc')
          ELSE rootCache' = rootCache
      ]_vars

C6_Witness ==
    /\ variant = "part_002"
    /\ proc = "mismatch"
    /\ \E h \in Heights : Len(CacheAt(h)) = 1 /\ CacheAt(h)[1].Root = "bb"
    /\ \E h \in Heights : Len(CacheAt(h)) = 1 /\ CacheAt(h)[1].Root = "aa"
    /\ Len(EventsAt(1000)) = 1

------------------------------------------------------------------------------
(* C7: in main.go the map is never evicted: while the engine runs, a       *)
(* height once cached stays cached and its reports only grow by            *)
(* appending.                                                              *)
C7_NeverEvicted ==
    [][(variant = "main" /\ proc' = "running") =>
          \A h \in DOMAIN rootCache :
              /\ h \in DOMAIN rootCache'
              /\ IsPrefix(rootCache[h], rootCache'[h])
      ]_vars

------------------------------------------------------------------------------
(* C8: in part_002, as long as no divergence was raised, the reports       *)
(* cached for a height are the (sourceId, root) pairs of the events of     *)
(* that height, in arrival order, one entry per event, repeats of a        *)
(* source included.                                                        *)
C8_ReportsAreTheEvents ==
    (variant = "part_002" /\ proc # "mismatch") =>
        \A evs \in {Events} :
            /\ DOMAIN rootCache = {evs[i].height : i \in 1..Len(evs)}
            /\ \A h \in DOMAIN rootCache : rootCache[h] = Reports(AtHeight(evs, h))

C8_Witness ==
    /\ variant = "part_002"
    /\ proc = "running"
    /\ \E h \in DOMAIN rootCache :
          /\ Len(rootCache[h]) >= 2
          /\ rootCache[h][1] = rootCache[h][2]
    /\ Cardinality(DOMAIN rootCache) = 2

------------------------------------------------------------------------------
(* C9: in part_002 the map and the outcome (halted on divergence or not)   *)
(* are a function of the sequence of commit events processed: a replay of  *)
(* the events from an empty map gives them, whatever the sends to the      *)
(* notifier came to and whatever the pd pipeline did.                      *)
Replay(events) ==
    LET RECURSIVE Run(_)
        Run(n) ==
            IF n = 0 THEN [cache |-> EmptyCache, halted |-> FALSE]
            ELSE LET before == Run(n - 1)
                     e == events[n]
                     known == IF e.height \in DOMAIN before.cache
                              THEN before.cache[e.height] ELSE << >>
                 IN  IF before.halted THEN before
                     ELSE IF \E i \in 1..Len(known) : known[i].Root # e.root
                     THEN [cache |-> before.cache, halted |-> TRUE]
                     ELSE [cache |-> CachePut(before.cache, e.height,
                                              Append(known, RootHashRecord(e.sourceId, e.root))),
                           halted |-> FALSE]
    IN  Run(Len(events))

C9_ReplayDeterminesState ==
    variant = "part_002" =>
        LET replayed == Replay(Events) IN
        /\ rootCache = replayed.cache
        /\ (proc = "mismatch") = replayed.halted

C9_Witness ==
    /\ variant = "part_002"
    /\ lastPost = "err"
    /\ \E i \in 1..Len(notified) : notified[i].from = "pd"
    /\ \E i \in 1..Len(notified) : notified[i].from = "tm"
    /\ Len(Events) >= 2

------------------------------------------------------------------------------
(* C10: only divergence ends the process: no transport error of an         *)
(* adapter, no failed send to the notifier and no skipped record does.     *)
C10_OnlyDivergenceTerminates ==
    variant = "part_002" => proc \in {"running", "exited", "mismatch"}

------------------------------------------------------------------------------
\* the record the tm loop received in this step, if it received one
TmReceived == Len(recvd'["tm"]) > Len(recvd["tm"])

LastTm(received) == received["tm"][Len(received["tm"])]

(* C11: a record of the commit stream without the pod_name label, or whose  *)
(* payload parseCommitLog rejects, is skipped: the step that receives it    *)
(* leaves the map and confirmedHeight as they were, posts nothing, logs     *)
(* nothing, does not end the process, and leaves the loop ready for the     *)
(* next record (part_002 and main.go).                                      *)
C11_SkippedRecordIsInert ==
    [][(variant \in {"part_002", "main"} /\ TmReceived /\ ~IsCommitEvent(LastTm(recvd'))) =>
          /\ rootCache' = rootCache
          /\ confirmedHeight' = confirmedHeight
          /\ notified' = notified
          /\ stdlog' = stdlog
          /\ proc' = "running"
          /\ consumer'["tm"] = "range"
      ]_vars

\* a record without the label and one that does not match have been skipped,
\* and the commit event after them is in the map
C11_Witness ==
    /\ variant = "part_002"
    /\ Len(recvd["tm"]) = 3
    /\ ~recvd["tm"][1].metadata.exists
    /\ recvd["tm"][2].metadata.exists /\ ~IsCommitEvent(recvd["tm"][2])
    /\ IsCommitEvent(recvd["tm"][3])
    /\ rootCache = [h \in {CommitEvent(recvd["tm"][3]).height} |->
                       << RootHashRecord(CommitEvent(recvd["tm"][3]).sourceId,
                                         CommitEvent(recvd["tm"][3]).root) >>]
    /\ proc = "running"

------------------------------------------------------------------------------
\* the messages the pd worker has handed to postToDiscord, in order
ForwardedPd ==
    LET sent == SelectSeq(notified, LAMBDA n : n.from = "pd")
    IN  [i \in 1..Len(sent) |-> sent[i].msg]

\* "{sourceId}: {payload}" for each record with the pod_name label, in order
RelayOutput(records) ==
    LET labelled == SelectSeq(records, LAMBDA e : e.metadata.exists)
    IN  [i \in 1..Len(labelled) |->
            ErrorNotice(labelled[i].metadata.pod_name, labelled[i].payload)]

\* the records whose iteration of the pd loop has run to its end
CompletedPd ==
    IF consumer["pd"] = "body" THEN SubSeq(recvd["pd"], 1, Len(recvd["pd"]) - 1)
    ELSE recvd["pd"]

(* C12, as stated: the pd worker forwards one message per labelled record   *)
(* of its input, in input order, and nothing else, however the tm worker    *)
(* is interleaved with it: what it has posted is always a prefix of the     *)
(* messages of the records it received, and is all of them once it is not   *)
(* in the middle of an iteration or the engine has halted the process.      *)
C12_RelayForwardsEachRecord ==
    /\ IsPrefix(ForwardedPd, RelayOutput(recvd["pd"]))
    /\ (consumer["pd"] # "body" \/ proc = "mismatch") =>
           ForwardedPd = RelayOutput(recvd["pd"])

(* C12, amended: the pd worker has forwarded exactly one message per        *)
(* labelled record whose iteration it completed, in input order, and        *)
(* nothing for the others, in every interleaving with the tm worker; the    *)
(* record it was processing when the engine halted the process is not       *)
(* forwarded.                                                               *)
C12_RelayForwardsCompleted ==
    ForwardedPd = RelayOutput(CompletedPd)

\* the engine halts while the pd worker holds a labelled record it has not
\* forwarded yet
C12_Witness ==
    /\ variant = "part_002"
    /\ proc = "mismatch"
    /\ consumer["pd"] = "body"
    /\ recvd["pd"][Len(recvd["pd"])].metadata.exists
    /\ ForwardedPd = << >>

------------------------------------------------------------------------------
(* C13: in part_002 a send to the notifier that fails changes nothing in    *)
(* the engine: a step of the tm worker whose http.Post failed stores,       *)
(* decides and halts as the events before it require, and a step of the pd  *)
(* worker whose http.Post failed leaves the map and the process alone.      *)
C13_SendErrorNotEscalated ==
    [][(variant = "part_002" /\ Len(notified') > Len(notified) /\ lastPost' = "err") =>
          IF TmReceived
          THEN C6_StepAt(LastTm(recvd'), rootCache', proc')
          ELSE /\ rootCache' = rootCache
               /\ proc' = "running"
      ]_vars

\* the progress notices and the alert of a divergence at height 1000 went
\* out, the last send failed, and the process has halted
C13_Witness ==
    /\ variant = "part_002"
    /\ lastPost = "err"
    /\ proc = "mismatch"
    /\ Len(notified) = 3
    /\ notified[1].msg.kind = "progress"
    /\ notified[3].msg.kind = "mismatch"

------------------------------------------------------------------------------
\* what a step added to a sequence that only grows
Added(before, after) == SubSeq(after, Len(before) + 1, Len(after))

OfKind(msgs, kind) == SelectSeq(msgs, LAMBDA m : m.kind = kind)

\* the messages among `posted` that come from the tm worker
TmMsgs(posted) ==
    LET sent == SelectSeq(posted, LAMBDA n : n.from = "tm")
    IN  [i \in 1..Len(sent) |-> sent[i].msg]

\* what a step that accepted event e must have logged and posted about it,
\* with `modulus` the period of the progress notices
C14_Emitted(e, modulus, logsAfter, postedAfter) ==
    LET status == OfKind(Added(stdlog, logsAfter), "status")
        progress == OfKind(TmMsgs(Added(notified, postedAfter)), "progress")
    IN  /\ Len(status) = 1
        /\ status[1].pod = e.sourceId
        /\ status[1].height = e.height
        /\ status[1].root = e.root
        /\ Len(progress) = (IF e.height % modulus = 0 THEN 1 ELSE 0)
        /\ \A i \in 1..Len(progress) :
               /\ progress[i].pod = e.sourceId
               /\ progress[i].height = e.height
               /\ progress[i].root = e.root

(* C14: for every event the engine accepts it writes one status line with   *)
(* the event's sourceId, height and root, and it posts a progress notice    *)
(* for the event exactly when the height is a multiple of 1000 in part_002  *)
(* and of 4320 in main.go.                                                  *)
C14_StatusAndProgress ==
    [][(/\ variant \in {"part_002", "main"}
        /\ TmReceived
        /\ IsCommitEvent(LastTm(recvd'))
        /\ proc' = "running") =>
          C14_Emitted(CommitEvent(LastTm(recvd')),
                      IF variant = "part_002" THEN 1000 ELSE 4320,
                      stdlog', notified')
      ]_vars

\* part_002 has accepted an event at height 1000 with a progress notice and
\* one at height 4320 without
C14_Witness ==
    /\ variant = "part_002"
    /\ proc = "running"
    /\ DOMAIN rootCache = {1000, 4320}
    /\ Len(OfKind(stdlog, "status")) = 2
    /\ Len(OfKind(TmMsgs(notified), "progress")) = 1

------------------------------------------------------------------------------
\* the line has the marker and the four fields the regexp asks for
C15_WellFormed(line) ==
    /\ line.marker
    /\ line.height # Missing /\ line.hash # "" /\ line.root # "" /\ line.num_txs # Missing

(* C15: parseCommitLog of part_002 and main.go returns either the commit    *)
(* log with exactly the height, root and num_txs of the line and the pod    *)
(* name it was given, and no error, or an error and no commit log; a line   *)
(* without the marker or without one of the four fields gives "no match".   *)
C15_NoPartialResult ==
    (variant \in {"part_002", "main"} /\ parse.called) =>
        LET line == parse.line
            out == parse.result
        IN  IF C15_WellFormed(line) /\ line.height # TooBig /\ line.num_txs # TooBig
            THEN /\ out.err = ""
                 /\ out.data.Height = line.height
                 /\ out.data.Root = line.root
                 /\ out.data.NumTxs = line.num_txs
                 /\ out.data.Hash = line.hash
                 /\ out.data.PodName = parse.podName
            ELSE /\ out.err # ""
                 /\ out.data = NoLogData
                 /\ ~C15_WellFormed(line) => out.err = "no match"

\* a well-formed line reported by nodeB has been parsed in part_002
C15_Witness ==
    /\ variant = "part_002"
    /\ parse.called
    /\ parse.podName = "nodeB"
    /\ parse.line = Line(TRUE, 1000, "deadbeef", "aa", 3, "")
    /\ parse.result.err = ""

------------------------------------------------------------------------------
(* C16: in main.go, an event whose root differs from a report cached at     *)
(* its height makes the engine post a divergence alert and halt: the step   *)
(* that receives it ends the process with the alert among its messages and  *)
(* leaves the map as it was.                                                *)
C16_MainFailStop ==
    [][(/\ variant = "main"
        /\ TmReceived
        /\ IsCommitEvent(LastTm(recvd'))
        /\ \E i \in 1..Len(CacheAt(CommitEvent(LastTm(recvd')).height)) :
               CacheAt(CommitEvent(LastTm(recvd')).height)[i].Root
                   # CommitEvent(LastTm(recvd')).root) =>
          /\ proc' = "mismatch"
          /\ Len(OfKind(TmMsgs(Added(notified, notified')), "mismatch")) = 1
          /\ rootCache' = rootCache
      ]_vars

------------------------------------------------------------------------------
\* streamLogsWithFilter has returned
AdapterEnded(p) == adapter[p] \in {"failed", "returned"}

(* C17: in part_002, when streamLogsWithFilter of a pipeline has returned   *)
(* (NewClient or TailLogEntries failed, or Recv gave EOF or an error), the  *)
(* pipeline's channel is closed; with both adapters returned the running    *)
(* process can always take a further step of a worker or of wg.Wait, until  *)
(* main has returned; and main returns only when both workers are done.     *)
C17_PipelinesTerminate ==
    variant = "part_002" =>
        /\ \A p \in Pipelines : AdapterEnded(p) => chClosed[p]
        /\ (proc = "running" /\ \A p \in Pipelines : AdapterEnded(p)) =>
               ENABLED (PdForward \/ WorkerExit("tm") \/ WorkerExit("pd") \/ MainReturn)
        /\ proc = "exited" => \A p \in Pipelines : consumer[p] = "done"

------------------------------------------------------------------------------
\* records a pipeline's adapter has taken off its stream and not yet passed on
\* plus those its worker has received
Taken(left, pending, received) ==
    left + pending["tm"] + pending["pd"] + Len(received["tm"]) + Len(received["pd"])

------------------------------------------------------------------------------
(* C19: in main.go, whenever the loop takes the chain-restart branch (the   *)
(* event's height is in the map and below confirmedHeight) the reports      *)
(* cached at that height are at least two, so prev[0] and prev[1] exist     *)
(* and the step does not end in an index-out-of-range panic.                *)
C19_RestartReadsInRange ==
    [][(/\ variant = "main"
        /\ TmReceived
        /\ IsCommitEvent(LastTm(recvd'))
        /\ CommitEvent(LastTm(recvd')).height \in DOMAIN rootCache
        /\ CommitEvent(LastTm(recvd')).height < confirmedHeight) =>
          /\ Len(rootCache[CommitEvent(LastTm(recvd')).height]) >= 2
          /\ proc' # "panic"
      ]_vars

------------------------------------------------------------------------------
\* the comparison of main.go and part_000: prev[0].Root != record.Root
DiffersFromFirst(record, prev) == prev[1].Root # record.Root

(* C20: for every map the engine can reach and every incoming report, at    *)
(* every cached height the comparison with the first cached report alone    *)
(* (main.go, part_000) decides as consistentRecords of part_002 does, and   *)
(* the first report it reads is there.                                      *)
C20_FirstDecidesAsAll ==
    \A h \in DOMAIN rootCache : \A pod \in Pods, root \in Roots :
        /\ Len(rootCache[h]) >= 1
        /\ DiffersFromFirst(RootHashRecord(pod, root), rootCache[h])
               = ~consistentRecords(RootHashRecord(pod, root), rootCache[h])

\* main.go holds three reports at one height, from both nodes, and another
\* height beside it
C20_Witness ==
    /\ variant = "main"
    /\ proc = "running"
    /\ Cardinality(DOMAIN rootCache) = 2
    /\ \E h \in DOMAIN rootCache :
          /\ Len(rootCache[h]) = 3
          /\ rootCache[h][1].PodName # rootCache[h][3].PodName

------------------------------------------------------------------------------
(* C21: in part_000 a pipeline's adapter is never blocked on a send that    *)
(* nobody will receive: whenever streamLogsWithFilter is at `out <- ...`    *)
(* in a running process, the worker of that pipeline is in its range loop   *)
(* (at the receive, or in the body on its way back to it).                  *)
C21_SendIsReceived ==
    (variant = "part_000" /\ proc = "running") =>
        \A p \in Pipelines :
            adapter[p] = "send" => consumer[p] \in {"range", "body"}

====
